---- MODULE Spec2Model ----
(***************************************************************************)
(* A model of core/sawtooth/client.py: the state synchronisation engine    *)
(* (_ClientState.fetch), the batch accumulator (start_batch, send_update,  *)
(* send_batch, reset_batch) and the submission pipeline (sendtxn) of       *)
(* SawtoothClient, against a validator that exposes a linear block chain.  *)
(*                                                                         *)
(* Python's None is the empty sequence and a present value x is <<x>>.     *)
(***************************************************************************)
EXTENDS Integers, Sequences, FiniteSets, TLC

VARIABLES
    height,                     \* validator: number of blocks of the chain
    client,                     \* "new", "ready" or "failed" (constructor)
    state,                      \* _ClientState._state (synchronized store)
    current_state,              \* _ClientState._current_state (speculative)
    current_block_id,           \* _ClientState._current_block_id
    last_transaction,           \* SawtoothClient._last_transaction
    update_batch,               \* SawtoothClient._update_batch
    local_node,                 \* SawtoothClient._local_node is not None
    disable_client_validation,  \* SawtoothClient._disable_client_validation
    cookie,                     \* _Communication._cookie
    added,                      \* what the caller added to the open batch
    last                        \* the operation that ran last, and its trace

vars == <<height, client, state, current_state, current_block_id,
          last_transaction, update_batch, local_node,
          disable_client_validation, cookie, added, last>>

\* ------------------------------------------------------------- bounds
MaxBlocks == 12
MaxShort == 3
MaxList == 2
MaxBatch == 3
MaxDeps == 2
MaxBody == 2
MaxPolls == 3

\* The number of block ids fetch() asks for.
LookBack == 10

None == <<>>
Some(x) == <<x>>

Keys == {"a", "b"}
Vals == {1, 2}
TxnIds == {"t1", "t2"}

Min(a, b) == IF a < b THEN a ELSE b

Range(s) == {s[i] : i \in 1..Len(s)}

\* ------------------------------------------------- key/value store
\* The content of a store: every key's value, 0 for a key that is absent.
EmptyStore == [k \in Keys |-> 0]

\* KeyValueStore.clone_store(delta): the store with a delta laid over it.
clone_store_delta(store, delta) ==
    [k \in Keys |->
        IF k \in delta.DeletedKeys THEN 0
        ELSE IF k \in DOMAIN delta.Store THEN delta.Store[k]
        ELSE store[k]]

\* KeyValueStore.clone_store(): a fork with nothing changed.
clone_store(store) == store

\* state_type(prevstore=None, storeinfo={'Store': objs, 'DeletedKeys': []})
NewStore(objs) ==
    clone_store_delta(EmptyStore, [Store |-> objs, DeletedKeys |-> {}])

\* --------------------------------------------------------- validator
EmptyMap == [k \in {} |-> 0]

NoDelta == [Store |-> EmptyMap, DeletedKeys |-> {}]

\* The deltas the blocks of a ledger carry, in a cycle.
Ledger ==
    << [Store |-> [a |-> 1],           DeletedKeys |-> {}],
       [Store |-> [b |-> 1],           DeletedKeys |-> {}],
       [Store |-> [a |-> 2],           DeletedKeys |-> {"b"}],
       NoDelta,
       [Store |-> [a |-> 1, b |-> 2],  DeletedKeys |-> {}],
       [Store |-> EmptyMap,            DeletedKeys |-> {"a"}] >>

\* The delta of block b.
DeltaOf(b) == Ledger[((b - 1) % Len(Ledger)) + 1]

\* The store's content as of block b.
RECURSIVE StoreAt(_)
StoreAt(b) == IF b = 0 THEN EmptyStore
              ELSE clone_store_delta(StoreAt(b - 1), DeltaOf(b))

\* GET block?blockcount=count: the newest count ids, newest first.
BlockList(count) == [i \in 1..Min(height, count) |-> height - i + 1]

\* GET store/<name>/*?blockid=b: the objects of the store as of block b.
ObjectsThrough(b) ==
    LET s == StoreAt(b) IN [k \in {x \in Keys : s[x] # 0} |-> s[k]]

\* ------------------------------------------------------ request paths
\* str.strip('/') on a name given as a sequence of characters.
RECURSIVE LStrip(_)
LStrip(s) == IF s # <<>> /\ Head(s) = "/" THEN LStrip(Tail(s)) ELSE s

RECURSIVE RStrip(_)
RStrip(s) == IF s # <<>> /\ s[Len(s)] = "/"
             THEN RStrip(SubSeq(s, 1, Len(s) - 1)) ELSE s

Strip(s) == RStrip(LStrip(s))

\* SawtoothClient._construct_store_path: the path segments after 'store',
\* whether a '?' follows them, and the parameters of the query.
_construct_store_path(txn_type_or_name, key, block_id, delta) ==
    LET named == IF txn_type_or_name # None
                 THEN <<Strip(txn_type_or_name[1])>> ELSE <<>>
        keyed == IF key # None THEN <<Strip(key[1])>> ELSE <<>>
        query == (IF block_id # None THEN {<<"blockid", block_id[1]>>} ELSE {})
                 \cup (IF delta THEN {<<"delta", 1>>} ELSE {})
    IN  [root |-> "store", segs |-> named \o keyed,
         qmark |-> Cardinality(query) >= 0, query |-> query]

\* SawtoothClient._construct_list_path
_construct_list_path(list_type, count) ==
    [root |-> list_type, segs |-> <<>>,
     qmark |-> count # None,
     query |-> IF count # None THEN {<<"blockcount", count[1]>>} ELSE {}]

\* SawtoothClient._construct_block_list_path
_construct_block_list_path(count) == _construct_list_path("block", count)

\* The store name the client is configured with, and the key of all objects.
store_name == Strip(<<"/", "A", "/">>)
AllKeys == <<"*">>

\* A GET request as _Communication.getmsg sends it: no cookie header.
GetRequest(path) ==
    [method |-> "GET", path |-> path, cookie |-> None, body |-> None]

\* get_block_list(count)
get_block_list_request(count) ==
    GetRequest(_construct_block_list_path(Some(count)))

\* get_store(key, block_id, delta) through get_store_by_name
get_store_request(key, block_id, delta) ==
    GetRequest(_construct_store_path(Some(store_name), key, block_id, delta))

\* get_store_delta_for_block(block_id)
get_store_delta_for_block_request(block_id) ==
    get_store_request(Some(AllKeys), Some(block_id), TRUE)

\* get_store_objects_through_block(block_id)
get_store_objects_through_block_request(block_id) ==
    get_store_request(Some(AllKeys), Some(block_id), FALSE)

\* ------------------------------------------------ _ClientState.fetch
\* list.index(x), counted from 1; 0 when x is not in the list.
Index(s, x) ==
    IF x \in Range(s)
    THEN CHOOSE i \in 1..Len(s) : s[i] = x /\ \A j \in 1..(i - 1) : s[j] # x
    ELSE 0

\* A fetch list that misses the oldest of the new blocks.
FetchListShort(block_ids, block) ==
    SubSeq(block_ids, 1, Index(block_ids, block) - 2)

\* block_ids[:block_ids.index(self._current_block_id)]
FetchList(block_ids, block) == SubSeq(block_ids, 1, Index(block_ids, block) - 1)

\* The fetch list walked in the order of the list, newest first.
NotReversed(s) == s

\* reversed(fetch_list)
Reversed(s) == [i \in 1..Len(s) |-> s[Len(s) + 1 - i]]

\* The test of the fast path: the latest block is the one we have.
IsCurrent(block_id, current) == Some(block_id) = current

\* A test that takes any recorded head for a common block.
HasAnyBlock(current, block_ids) == current # None

\* self._current_block_id in block_ids
HasCommonBlock(current, block_ids) ==
    current # None /\ current[1] \in Range(block_ids)

\* A refresh that keeps the speculative store it had.
SpeculativeKept(store) == IF current_state = None THEN Some(store) ELSE current_state

\* self._current_state = self._state.clone_store()
SpeculativeFork(store) == Some(clone_store(store))

\* A refresh that records the head only the first time.
RecordedOnce(block_id) ==
    IF current_block_id = None THEN Some(block_id) ELSE current_block_id

\* self._current_block_id = block_id
RecordedHead(block_id) == Some(block_id)

\* The loop over reversed(fetch_list): one delta request per block and one
\* clone_store(delta) per answer. The GET numbered fail (1 is the next one)
\* raises MessageException and ends the loop.
RECURSIVE FetchDeltas(_, _, _)
FetchDeltas(store, ids, fail) ==
    IF ids = <<>> THEN [state |-> store, reqs |-> <<>>, failed |-> FALSE]
    ELSE LET req == get_store_delta_for_block_request(Head(ids)) IN
         IF fail = 1
         THEN [state |-> store, reqs |-> <<req>>, failed |-> TRUE]
         ELSE LET rest == FetchDeltas(clone_store_delta(store, DeltaOf(Head(ids))),
                                      Tail(ids), fail - 1)
              IN  [rest EXCEPT !.reqs = <<req>> \o @]

\* _ClientState.fetch with the GET numbered fail (0: none) failing: the
\* outcome, the requests sent, and the three fields afterwards.
fetch(fail) ==
    LET listreq == get_block_list_request(LookBack)
        same(outcome, reqs) ==
            [outcome |-> outcome, reqs |-> reqs, state |-> state,
             current_state |-> current_state,
             current_block_id |-> current_block_id]
    IN
    IF fail = 1 THEN same("MessageException", <<listreq>>)
    ELSE
    LET block_ids == BlockList(LookBack)
        block_id == block_ids[1]
    IN
    IF IsCurrent(block_id, current_block_id) THEN same("ok", <<listreq>>)
    ELSE IF HasCommonBlock(current_block_id, block_ids)
    THEN LET fetch_list == FetchList(block_ids, current_block_id[1])
             got == FetchDeltas(state[1], Reversed(fetch_list), fail - 1)
         IN  IF got.failed
             THEN [same("MessageException", <<listreq>> \o got.reqs)
                      EXCEPT !.state = Some(got.state)]
             ELSE [outcome |-> "ok", reqs |-> <<listreq>> \o got.reqs,
                   state |-> Some(got.state),
                   current_state |-> SpeculativeFork(got.state),
                   current_block_id |-> RecordedHead(block_id)]
    ELSE LET req == get_store_objects_through_block_request(block_id)
             new == NewStore(ObjectsThrough(block_id))
         IN  IF fail = 2
             THEN same("MessageException", <<listreq, req>>)
             ELSE [outcome |-> "ok", reqs |-> <<listreq, req>>,
                   state |-> Some(new),
                   current_state |-> SpeculativeFork(new),
                   current_block_id |-> RecordedHead(block_id)]

\* ------------------------------------------------ transaction family
\* An update record of the transaction family: set a key, or delete one.
UpdateRecs ==
    [Verb : {"set"}, Name : Keys, Value : Vals]
    \cup [Verb : {"del"}, Name : Keys, Value : {0}]

\* The effect of one update on a store.
ApplyUpdate(store, u) ==
    [store EXCEPT ![u.Name] = IF u.Verb = "set" THEN u.Value ELSE 0]

\* txn.apply(store): the updates of the transaction, in order.
RECURSIVE txn_apply(_, _)
txn_apply(store, updates) ==
    IF updates = <<>> THEN store
    ELSE txn_apply(ApplyUpdate(store, Head(updates)), Tail(updates))

\* txn.check_valid(store): a key can be deleted only where it is present.
RECURSIVE txn_check_valid(_, _)
txn_check_valid(store, updates) ==
    IF updates = <<>> THEN TRUE
    ELSE LET u == Head(updates) IN
         /\ (u.Verb = "del" => store[u.Name] # 0)
         /\ txn_check_valid(ApplyUpdate(store, u), Tail(updates))

\* ------------------------------------------- _Communication.postmsg
\* What the validator, or the network, answers to a POST.
PostAnswers ==
    [kind : {"ok"}, encoding : {"application/cbor", "text/plain"},
     body : {"value"}, set_cookie : {None, Some(""), Some("c1"), Some("c2")}]
    \cup [kind : {"HTTPError"}, encoding : {"application/json"},
          body : {"InvalidTransactionError", "OtherError", "NoErrorType",
                  "Undecodable"},
          set_cookie : {None}]
    \cup [kind : {"HTTPError"}, encoding : {"text/plain"},
          body : {"Undecodable"}, set_cookie : {None}]
    \cup [kind : {"URLError", "Timeout"}, encoding : {"none"},
          body : {"none"}, set_cookie : {None}]

Structured(encoding) == encoding \in {"application/json", "application/cbor"}

\* "if self._cookie": a cookie is held; None and the empty string are false.
cookie_held(held) == held # None /\ held[1] # ""

\* The request postmsg builds: the cookie header is added once a cookie is held.
PostRequest(msgtype, info) ==
    [method |-> "POST",
     path |-> [root |-> msgtype, segs |-> <<>>, qmark |-> FALSE, query |-> {}],
     cookie |-> IF cookie_held(cookie) THEN cookie ELSE None,
     body |-> Some(info)]

\* A postmsg that takes the Set-Cookie header of every response that has one.
CookieAfterLatest(held, answer) ==
    IF answer.kind = "ok" /\ answer.set_cookie # None
    THEN answer.set_cookie ELSE held

\* The cookie after an answered POST: the Set-Cookie header of the response,
\* or None where it has none, if no cookie is held. The headers of an
\* HTTPError are not looked at.
CookieAfter(held, answer) ==
    IF answer.kind = "ok" /\ ~cookie_held(held) THEN answer.set_cookie ELSE held

\* How postmsg ends on an answer: with a value, with None, or with the
\* exception it raises.
postmsg_outcome(answer) ==
    CASE answer.kind = "ok" ->
            IF Structured(answer.encoding) THEN "value" ELSE "None"
      [] answer.kind = "HTTPError" ->
            IF ~Structured(answer.encoding) THEN "MessageException"
            ELSE IF answer.body = "Undecodable" THEN "ValueError"
            ELSE IF answer.body = "InvalidTransactionError"
                 THEN "InvalidTransactionError"
            ELSE IF answer.body = "OtherError" THEN "MessageException"
            ELSE "UnboundLocalError"
      [] OTHER -> "MessageException"

\* ------------------------------------------- SawtoothClient.sendtxn
\* A sendtxn that does not look for the signing identity.
read_only_never == FALSE

\* "if self._local_node is None": a read-only client
read_only == ~local_node

\* A sendtxn that never runs the local check.
client_validation_never == FALSE

\* "if not self._disable_client_validation: txn.check_valid(...)"
client_validation == ~disable_client_validation

\* A sendtxn without the try/except around postmsg.
caught_nothing(posted) == FALSE

\* "except MessageException": what postmsg raised is caught, None returned.
caught(posted) == posted = "MessageException"

\* A sendtxn that does not save the identifier.
recorded_transaction_kept(txnid) == last_transaction

\* self._last_transaction = txnid
recorded_transaction(txnid) == Some(txnid)

\* A sendtxn that applies the transaction it posted to the synchronized
\* store as well.
synchronized_applied(minfo) == Some(txn_apply(state[1], minfo.Updates))

\* txn.apply is handed self._current_state.state, the speculative store: the
\* synchronized store after a transaction was posted is the one before.
synchronized(minfo) == state

\* A sendtxn that does not apply the transaction it posted.
applied_never(minfo) == current_state

\* "if not self._disable_client_validation: txn.apply(...)": the speculative
\* snapshot after a transaction was posted
applied(minfo) ==
    IF ~disable_client_validation
    THEN Some(txn_apply(current_state[1], minfo.Updates))
    ELSE current_state

\* sendtxn(minfo) where signing gives the transaction the identifier txnid,
\* on the answer the POST gets, if it is sent: how it ends, what it returns,
\* the requests sent and the fields afterwards.
sendtxn(minfo, txnid, answer) ==
    LET req == PostRequest("msgtype", [Identifier |-> txnid, minfo |-> minfo])
        posted == postmsg_outcome(answer)
        ck == CookieAfter(cookie, answer)
        unsent(outcome) ==
            [outcome |-> outcome, ret |-> None, reqs |-> <<>>,
             last_transaction |-> last_transaction,
             current_state |-> current_state, cookie |-> cookie,
             posted |-> None, answer |-> None, state |-> state]
        same(outcome) ==
            [outcome |-> outcome, ret |-> None, reqs |-> <<req>>,
             last_transaction |-> last_transaction,
             current_state |-> current_state, cookie |-> ck,
             posted |-> Some(posted), answer |-> Some(answer),
             state |-> state]
    IN
    IF read_only THEN unsent("ClientException")
    ELSE IF client_validation
            /\ ~txn_check_valid(current_state[1], minfo.Updates)
    THEN unsent("InvalidTransactionError")
    ELSE IF caught(posted) THEN same("ok")
    ELSE IF posted = "None" THEN same("AssertionError")
    ELSE IF posted # "value" THEN same(posted)
    ELSE [outcome |-> "ok", ret |-> Some(txnid), reqs |-> <<req>>,
          last_transaction |-> recorded_transaction(txnid),
          current_state |-> applied(minfo),
          cookie |-> ck, posted |-> Some(posted), answer |-> Some(answer),
          state |-> synchronized(minfo)]

\* ------------------------------------------------- batch accumulator
EmptyBatch == [Updates |-> <<>>, Dependencies |-> <<>>]

\* What a caller passes as updates: one update record (a dict), a list of
\* them, or a value of another type.
UpdateArgs(recs, maxlen) ==
    [kind : {"dict"}, val : recs]
    \cup [kind : {"list"},
          val : UNION {[1..n -> recs] : n \in 0..maxlen}]
    \cup [kind : {"other"}, val : {<<>>}]

\* What a caller passes as dependencies: None, or a list of transaction ids.
DependencyArgs ==
    {None} \cup {Some(d) : d \in {<<>>, <<"t1">>, <<"t2">>, <<"t1", "t2">>}}

\* Dependencies of a direct submission: none, or the transaction before.
DirectDependencyArgs == {None, Some(<<"t1">>)}

\* The update records an argument carries, in order.
Records(updates) == IF updates.kind = "dict" THEN <<updates.val>> ELSE updates.val

\* "if dependencies:" is false for None and for an empty list.
Truthy(dependencies) == dependencies # None /\ dependencies[1] # <<>>

\* "dependencies or []"
OrEmpty(dependencies) == IF Truthy(dependencies) THEN dependencies[1] ELSE <<>>

\* A start_batch that does not look for an open batch.
batch_never_in_progress(batch) == FALSE

\* start_batch: "if self._update_batch is not None"
batch_in_progress(batch) == batch # None

\* start_batch on a client with no open batch
start_batch_new == Some(EmptyBatch)

\* A send_update that does not look for an open batch.
batching_mode_never(batch) == FALSE

\* send_update: "if self._update_batch is not None", the batching mode
batching_mode(batch) == batch # None

\* A reset_batch that leaves the batch in place.
reset_batch_kept == update_batch

\* reset_batch: the batch slot afterwards
reset_batch_slot == None

\* A send_update that assigns a list of updates instead of extending by it.
batch_add_assign(batch, updates, dependencies) ==
    [Updates |-> IF updates.kind = "dict"
                 THEN Append(batch.Updates, updates.val)
                 ELSE updates.val,
     Dependencies |-> IF dependencies # None /\ dependencies[1] # <<>>
                      THEN batch.Dependencies \o dependencies[1]
                      ELSE batch.Dependencies]

\* send_update in batching mode, for a dict or a list: the batch afterwards.
batch_add(batch, updates, dependencies) ==
    LET upd == IF updates.kind = "dict"
               THEN Append(batch.Updates, updates.val)
               ELSE batch.Updates \o updates.val
        dep == IF Truthy(dependencies)
               THEN batch.Dependencies \o dependencies[1]
               ELSE batch.Dependencies
    IN  [Updates |-> upd, Dependencies |-> dep]

\* send_update outside batching mode: the minfo handed to sendtxn.
update_minfo(updates, dependencies) ==
    [Updates |-> IF updates.kind = "dict" THEN <<updates.val>> ELSE updates.val,
     Dependencies |-> OrEmpty(dependencies)]

\* send_batch: len(self._update_batch), the number of keys of the dict.
batch_len(batch) == Cardinality(DOMAIN batch)

\* A send_batch that clears the slot after sendtxn returns, so that it
\* stays when sendtxn raises.
send_batch_slot_after(batch, outcome) ==
    IF outcome = "ok" THEN None ELSE Some(batch)

\* send_batch: the batch slot afterwards, however sendtxn ended; it is
\* cleared before sendtxn is called.
send_batch_slot(batch, outcome) == None

\* send_batch: the minfo handed to sendtxn.
send_batch_minfo(batch) == batch

\* The record of an operation: its name, how it ended, what it returned, the
\* requests it sent, the calls it made to sendtxn, and whether the operation
\* before it was a fetch_state() that returned. For a submission, answer is
\* what its POST was answered and posted is how postmsg ended; for a store
\* request, args holds its arguments; for an UpdateBatch scope, scope is how its body ended
\* and the client methods called; for wait_for_commit, wait holds its
\* arguments and the status codes it was given.
Trace(op, outcome, ret, reqs, calls) ==
    [op |-> op, outcome |-> outcome, ret |-> ret, reqs |-> reqs,
     calls |-> calls,
     after_fetch |-> last.op \in {"fetch_state", "__init__"}
                     /\ last.outcome = "ok",
     posted |-> None, answer |-> None, scope |-> None, wait |-> None,
     args |-> None]

\* ------------------------------------------------------------ actions
Init ==
    /\ height = 1
    /\ client = "new"
    /\ state = None
    /\ current_state = None
    /\ current_block_id = None
    /\ last_transaction = None
    /\ update_batch = None
    /\ local_node \in BOOLEAN
    /\ disable_client_validation \in BOOLEAN
    /\ cookie = None
    /\ added = [Updates |-> <<>>, Dependencies |-> <<>>]
    /\ last = [op |-> "none", outcome |-> "ok", ret |-> None, reqs |-> <<>>,
               calls |-> <<>>, after_fetch |-> FALSE,
               posted |-> None, answer |-> None, scope |-> None,
               wait |-> None, args |-> None]

\* The validator commits a block, up to a chain of limit blocks.
ProduceTo(limit) ==
    /\ height < limit
    /\ height' = height + 1
    /\ last' = Trace("produce", "ok", None, <<>>, <<>>)
    /\ UNCHANGED <<client, state, current_state, current_block_id,
                   last_transaction, update_batch, local_node,
                   disable_client_validation, cookie, added>>

\* SawtoothClient.__init__ with a store name: the first fetch_state(). A
\* failure of it leaves no client.
Construct ==
    /\ client = "new"
    /\ \E fail \in 0..2 :
         LET r == fetch(fail) IN
         /\ client' = IF r.outcome = "ok" THEN "ready" ELSE "failed"
         /\ state' = r.state
         /\ current_state' = r.current_state
         /\ current_block_id' = r.current_block_id
         /\ last' = Trace("__init__", r.outcome, None, r.reqs, <<>>)
    /\ UNCHANGED <<height, last_transaction, update_batch, local_node,
                   disable_client_validation, cookie, added>>

\* SawtoothClient.fetch_state
FetchState ==
    /\ client = "ready"
    /\ \E fail \in 0..LookBack :
         LET r == fetch(fail) IN
         /\ state' = r.state
         /\ current_state' = r.current_state
         /\ current_block_id' = r.current_block_id
         /\ last' = Trace("fetch_state", r.outcome, None, r.reqs, <<>>)
    /\ UNCHANGED <<height, client, last_transaction, update_batch,
                   local_node, disable_client_validation, cookie, added>>

\* The result of an operation written to the fields it can change.
Effect(op, r, calls, batch) ==
    /\ last_transaction' = r.last_transaction
    /\ current_state' = r.current_state
    /\ state' = r.state
    /\ cookie' = r.cookie
    /\ update_batch' = batch
    /\ last' = [Trace(op, r.outcome, r.ret, r.reqs, calls)
                   EXCEPT !.posted = r.posted, !.answer = r.answer]

\* An operation that ends without reaching sendtxn.
Ends(outcome) ==
    [outcome |-> outcome, ret |-> None, reqs |-> <<>>,
     last_transaction |-> last_transaction, current_state |-> current_state,
     cookie |-> cookie, posted |-> None, answer |-> None, state |-> state]

\* SawtoothClient.start_batch
StartBatch ==
    /\ client = "ready"
    /\ IF batch_in_progress(update_batch)
       THEN /\ Effect("start_batch", Ends("ClientException"), <<>>, update_batch)
            /\ UNCHANGED added
       ELSE /\ Effect("start_batch", Ends("ok"), <<>>, start_batch_new)
            /\ added' = EmptyBatch
    /\ UNCHANGED <<height, client, current_block_id, local_node,
                   disable_client_validation>>

\* SawtoothClient.reset_batch
ResetBatch ==
    /\ client = "ready"
    /\ Effect("reset_batch", Ends("ok"), <<>>, reset_batch_slot)
    /\ UNCHANGED <<height, client, current_block_id, local_node,
                   disable_client_validation, added>>

\* SawtoothClient.send_batch, on the answer its POST gets if one is sent.
SendBatchOn(answers) ==
    /\ client = "ready"
    /\ IF update_batch = None
       THEN Effect("send_batch", Ends("TypeError"), <<>>, update_batch)
       ELSE IF batch_len(update_batch[1]) = 0
       THEN Effect("send_batch", Ends("ClientException"), <<>>, update_batch)
       ELSE \E txnid \in TxnIds, answer \in answers :
               LET msg_info == send_batch_minfo(update_batch[1])
                   r == sendtxn(msg_info, txnid, answer)
               IN  Effect("send_batch", r, <<msg_info>>,
                          send_batch_slot(update_batch[1], r.outcome))
    /\ UNCHANGED <<height, client, current_block_id, local_node,
                   disable_client_validation, added>>

\* SawtoothClient.send_update with the given arguments, on the answer its
\* POST gets if one is sent.
SendUpdateOn(args, depargs, answers) ==
    /\ client = "ready"
    /\ \E updates \in args, dependencies \in depargs :
        IF batching_mode(update_batch)
        THEN IF updates.kind = "other"
             THEN /\ Effect("send_update", Ends("ClientException"), <<>>,
                            update_batch)
                  /\ UNCHANGED added
             ELSE /\ Len(update_batch[1].Updates) + Len(Records(updates))
                        <= MaxBatch
                  /\ Len(update_batch[1].Dependencies)
                        + Len(OrEmpty(dependencies)) <= MaxDeps
                  /\ Effect("send_update", Ends("ok"), <<>>,
                            Some(batch_add(update_batch[1], updates,
                                           dependencies)))
                  /\ added' =
                        [Updates |-> added.Updates \o Records(updates),
                         Dependencies |->
                            added.Dependencies \o OrEmpty(dependencies)]
        ELSE /\ updates.kind # "other"
             /\ \E txnid \in TxnIds, answer \in answers :
                  LET minfo == update_minfo(updates, dependencies) IN
                  Effect("send_update", sendtxn(minfo, txnid, answer), <<minfo>>,
                         update_batch)
             /\ UNCHANGED added
    /\ UNCHANGED <<height, client, current_block_id, local_node,
                   disable_client_validation>>

\* ------------------------------------------------------- UpdateBatch
\* The body of a "with UpdateBatch(client)" block: the send_update calls it
\* makes, in order, and whether it then raises an exception of its own.
ScopeBodies(items, maxlen) ==
    [calls : UNION {[1..n -> items] : n \in 0..maxlen}, raises : BOOLEAN]

\* The calls of a body on the batch that __enter__ opened, up to the first
\* that raises: the batch afterwards, the exception that left the body, and
\* the client methods called.
RECURSIVE RunBody(_, _)
RunBody(batch, calls) ==
    IF calls = <<>>
    THEN [batch |-> batch, exception |-> None, methods |-> <<>>]
    ELSE LET c == Head(calls) IN
         IF c.updates.kind = "other"
         THEN [batch |-> batch, exception |-> Some("ClientException"),
               methods |-> <<"send_update">>]
         ELSE LET rest == RunBody(batch_add(batch, c.updates, c.dependencies),
                                  Tail(calls))
              IN  [rest EXCEPT !.methods = <<"send_update">> \o @]

\* An __exit__ that sends the batch however the body ended.
exit_call_always_send(exception_type) == "send_batch"

\* UpdateBatch.__exit__: "if exception_type is None", the client method called
exit_call(exception_type) ==
    IF exception_type = None THEN "send_batch" ELSE "reset_batch"

\* One "with UpdateBatch(client)" block, from __enter__ to the end of
\* __exit__, on the answer the POST of its send_batch gets if one is sent.
\* __exit__ returns None, so what the body raised leaves the block.
UpdateBatchOn(bodies, answers) ==
    /\ client = "ready"
    /\ IF batch_in_progress(update_batch)
       THEN /\ last' = [Trace("UpdateBatch", "ClientException", None, <<>>, <<>>)
                           EXCEPT !.scope = Some([entered |-> FALSE,
                                                  exception |-> None,
                                                  methods |-> <<"start_batch">>])]
            /\ UNCHANGED <<last_transaction, current_state, state, cookie,
                           update_batch, added>>
       ELSE \E body \in bodies, txnid \in TxnIds, answer \in answers :
              LET run == RunBody(start_batch_new[1], body.calls)
                  exception_type ==
                      IF run.exception # None THEN run.exception
                      ELSE IF body.raises THEN Some("BodyError") ELSE None
                  method == exit_call(exception_type)
                  msg_info == send_batch_minfo(run.batch)
                  sent == method = "send_batch" /\ batch_len(run.batch) # 0
                  r == IF method = "reset_batch" THEN Ends(exception_type[1])
                       ELSE IF ~sent THEN Ends("ClientException")
                       ELSE sendtxn(msg_info, txnid, answer)
                  calls == IF sent THEN <<msg_info>> ELSE <<>>
              IN  /\ last_transaction' = r.last_transaction
                  /\ current_state' = r.current_state
                  /\ state' = r.state
                  /\ cookie' = r.cookie
                  /\ update_batch' =
                        IF method = "reset_batch" THEN reset_batch_slot
                        ELSE IF ~sent THEN Some(run.batch)
                        ELSE send_batch_slot(run.batch, r.outcome)
                  /\ added' = run.batch
                  /\ last' = [Trace("UpdateBatch", r.outcome, r.ret, r.reqs, calls)
                                 EXCEPT !.posted = r.posted,
                                        !.answer = r.answer,
                                        !.scope =
                                            Some([entered |-> TRUE,
                                                  exception |-> exception_type,
                                                  methods |->
                                                      <<"start_batch">>
                                                      \o run.methods
                                                      \o <<method>>])]
    /\ UNCHANGED <<height, client, current_block_id, local_node,
                   disable_client_validation>>

\* --------------------------------------------------- wait_for_commit
\* TransactionStatus
committed == 200
pending == 302
not_found == 404
server_busy == 503

\* SawtoothClient._construct_item_path with no field: '<type>/<id>'
_construct_item_path(item_type, item_id) ==
    [root |-> item_type, segs |-> <<(<<item_id>>)>>, qmark |-> FALSE,
     query |-> {}]

\* SawtoothClient._construct_transaction_path
_construct_transaction_path(transaction_id) ==
    _construct_item_path("transaction", transaction_id)

\* A HEAD request as _Communication.headrequest sends it: no cookie header.
HeadRequest(path) ==
    [method |-> "HEAD", path |-> path, cookie |-> None, body |-> None]

\* get_transaction_status(transaction_id)
get_transaction_status_request(transaction_id) ==
    HeadRequest(_construct_transaction_path(transaction_id))

\* A validator as wait_for_commit sees it: it answers every status check with
\* the code others until the check numbered commit_at, from which on it
\* answers committed; the check numbered fail_at gets no answer. A number 0
\* is no check.
WaitPeers(checks) ==
    [others : {pending, not_found, server_busy},
     commit_at : 0..checks, fail_at : 0..checks]

\* headrequest for the check numbered n: the status code of the response, or
\* of the HTTPError, or a MessageException.
headrequest(peer, n) ==
    IF n = peer.fail_at THEN [raises |-> TRUE, code |-> 0]
    ELSE IF peer.commit_at # 0 /\ n >= peer.commit_at
    THEN [raises |-> FALSE, code |-> committed]
    ELSE [raises |-> FALSE, code |-> peer.others]

\* "if not txnid": None and the empty string are false.
Falsy(txnid) == txnid = None \/ txnid[1] = ""

\* A wait_for_commit that never falls back on the last transaction.
wait_target_given(txnid) == txnid

\* "if not txnid: txnid = self._last_transaction"
wait_target(txnid) == IF Falsy(txnid) THEN last_transaction ELSE txnid

\* A loop that stops one check early.
exhausted_early(passes, iterations) == passes >= iterations

\* A loop that stops one check late.
exhausted_late(passes, iterations) == passes > iterations + 1

\* "passes > iterations"
exhausted(passes, iterations) == passes > iterations

\* A loop that gives up on its last pass whatever the status.
gives_up_whatever(status, passes, iterations) == exhausted(passes, iterations)

\* "if status != TransactionStatus.committed and passes > iterations"
gives_up(status, passes, iterations) ==
    status # committed /\ exhausted(passes, iterations)

\* The loop of wait_for_commit from the pass numbered passes on, statuses
\* being the codes of the passes before: how it ends, what it returns, the
\* number of status checks it made and the codes it was given.
RECURSIVE wait_loop(_, _, _, _)
wait_loop(peer, iterations, passes, statuses) ==
    LET answer == headrequest(peer, passes)
        seen == Append(statuses, answer.code)
    IN  IF answer.raises
        THEN [outcome |-> "MessageException", ret |-> None,
              checks |-> passes, statuses |-> statuses]
        ELSE IF gives_up(answer.code, passes, iterations)
        THEN [outcome |-> "ok", ret |-> Some(FALSE),
              checks |-> passes, statuses |-> seen]
        ELSE IF answer.code = committed
        THEN [outcome |-> "ok", ret |-> Some(TRUE),
              checks |-> passes, statuses |-> seen]
        ELSE wait_loop(peer, iterations, passes + 1, seen)

\* SawtoothClient.wait_for_commit(txnid, timetowait, iterations) against a
\* peer; the sleep between two checks changes nothing.
WaitForCommitOn(args, peers) ==
    /\ client = "ready"
    /\ \E txnid \in args, iterations \in 0..MaxPolls, peer \in peers :
          LET target == wait_target(txnid)
              r == IF Falsy(target)
                   THEN [outcome |-> "ok", ret |-> Some(TRUE), checks |-> 0,
                         statuses |-> <<>>]
                   ELSE wait_loop(peer, iterations, 1, <<>>)
              reqs == [i \in 1..r.checks |->
                          get_transaction_status_request(target[1])]
          IN  last' = [Trace("wait_for_commit", r.outcome, r.ret, reqs, <<>>)
                         EXCEPT !.wait = Some([txnid |-> txnid,
                                               iterations |-> iterations,
                                               statuses |-> r.statuses])]
    /\ UNCHANGED <<height, client, state, current_state, current_block_id,
                   last_transaction, update_batch, local_node,
                   disable_client_validation, cookie, added>>

\* ------------------------------------------------ get_store_by_name
\* SawtoothClient.get_store_by_name(txn_type_or_name, key, block_id, delta)
\* with a store name: one GET of the constructed store path, answered or not.
GetStoreByNameOn(names, keys, block_ids) ==
    /\ client = "ready"
    /\ \E txn_type_or_name \in names, key \in keys, block_id \in block_ids,
          delta \in BOOLEAN, answered \in BOOLEAN :
          last' = [Trace("get_store_by_name",
                         IF answered THEN "ok" ELSE "MessageException", None,
                         <<GetRequest(_construct_store_path(
                                          txn_type_or_name, key, block_id,
                                          delta))>>,
                         <<>>)
                     EXCEPT !.args = Some([txn_type_or_name |-> txn_type_or_name,
                                           key |-> key, block_id |-> block_id,
                                           delta |-> delta])]
    /\ UNCHANGED <<height, client, state, current_state, current_block_id,
                   last_transaction, update_batch, local_node,
                   disable_client_validation, cookie, added>>

\* ------------------------------------------------------ specifications
\* Refresh against a growing chain.
Produce == ProduceTo(MaxBlocks)

Next == Produce \/ Construct \/ FetchState

Spec == Init /\ [][Next]_vars

\* Direct submissions and refreshes against a short chain.
SubmitRecs ==
    {u \in UpdateRecs : u.Name = "a" \/ (u.Name = "b" /\ u.Verb = "del")}

SubmitAnswers ==
    {a \in PostAnswers : a.set_cookie = None /\ a.kind # "Timeout"
                          /\ a.encoding # "text/plain"
                          /\ a.body \in {"value", "none", "InvalidTransactionError"}}

ProduceFew == ProduceTo(MaxShort)

SendUpdate ==
    SendUpdateOn(UpdateArgs(SubmitRecs, 1), DirectDependencyArgs, SubmitAnswers)

NextSubmit == ProduceFew \/ Construct \/ FetchState \/ SendUpdate

SpecSubmit == Init /\ [][NextSubmit]_vars

\* The batch accumulator and the submission pipeline, the chain at rest.
BatchRecs == {u \in UpdateRecs : u.Name = "a" /\ u.Value <= 1}

AddToBatch ==
    /\ update_batch # None
    /\ SendUpdateOn(UpdateArgs(BatchRecs, MaxList), DependencyArgs,
                    SubmitAnswers)

SendBatch == SendBatchOn(SubmitAnswers)

NextBatch == Construct \/ StartBatch \/ AddToBatch \/ SendBatch \/ ResetBatch

SpecBatch == Init /\ [][NextBatch]_vars

\* Direct submissions of one update against every answer a POST can get, the
\* chain at rest.
PostUpdate ==
    SendUpdateOn([kind : {"dict"}, val : SubmitRecs], {None}, PostAnswers)

NextPost == Construct \/ PostUpdate

SpecPost == Init /\ [][NextPost]_vars

\* Waiting for a commit, between direct submissions of one update.
WaitArgs == {None, Some(""), Some("t1")}

WaitSubmit ==
    SendUpdateOn({a \in UpdateArgs(BatchRecs, 0) : a.kind = "dict"}, {None},
                 {a \in SubmitAnswers : a.kind # "HTTPError"})

WaitForCommit == WaitForCommitOn(WaitArgs, WaitPeers(MaxPolls + 1))

NextWait == Construct \/ WaitSubmit \/ WaitForCommit

SpecWait == Init /\ [][NextWait]_vars

\* Submissions answered with a session token, between refreshes and waits,
\* the chain at rest.
CookieAnswers ==
    {a \in PostAnswers : a.kind = "ok" /\ Structured(a.encoding)
                          /\ a.set_cookie \in {None, Some("c1")}}

CookieSubmit ==
    SendUpdateOn({a \in UpdateArgs(BatchRecs, 0) : a.kind = "dict"}, {None},
                 CookieAnswers)

CookieWait == WaitForCommitOn({None, Some("t1")}, WaitPeers(1))

NextCookie == Construct \/ FetchState \/ CookieSubmit \/ CookieWait

SpecCookie == Init /\ [][NextCookie]_vars

\* Store requests for every combination of name, key, block id and delta flag.
StoreNames == {None, Some(<<"A">>), Some(<<"/", "A", "/">>), Some(<<"B", "/">>)}

StoreKeys == {None, Some(<<"*">>), Some(<<"/", "a">>), Some(<<"b">>)}

StoreBlockIds == {None} \cup {Some(b) : b \in 1..MaxShort}

GetStoreByName == GetStoreByNameOn(StoreNames, StoreKeys, StoreBlockIds)

NextPath == Construct \/ GetStoreByName

SpecPath == Init /\ [][NextPath]_vars

\* "with UpdateBatch(client)" blocks, between start_batch and reset_batch
\* calls made outside them.
ScopeCalls ==
    [updates : {u \in UpdateArgs(BatchRecs, 0) : u.kind # "list"},
     dependencies : {None}]

UpdateBatchScope == UpdateBatchOn(ScopeBodies(ScopeCalls, MaxBody), SubmitAnswers)

NextScope == Construct \/ StartBatch \/ ResetBatch \/ UpdateBatchScope

SpecScope == Init /\ [][NextScope]_vars

\* -------------------------------------------------------------- claims
IsRefresh(op) == op \in {"fetch_state", "__init__"}

IsPrefix(s, t) == Len(s) <= Len(t) /\ s = SubSeq(t, 1, Len(s))

ListRequest == get_block_list_request(LookBack)

\* The delta requests for blocks from + 1 .. to, oldest first.
DeltaRequests(from, to) ==
    [i \in 1..(to - from) |-> get_store_delta_for_block_request(from + i)]

\* The deltas of blocks from + 1 .. to laid over a store, oldest first.
RECURSIVE CaughtUp(_, _, _)
CaughtUp(store, from, to) ==
    IF from >= to THEN store
    ELSE CaughtUp(clone_store_delta(store, DeltaOf(from + 1)), from + 1, to)

\* C1: a fetch_state() that follows a refresh which returned, with no block
\* produced in between, leaves the synchronized store, the speculative store
\* and the recorded head as they were and sends the block-list request only.
C1_IdempotentRefresh ==
    [][(IsRefresh(last.op) /\ last.outcome = "ok" /\ last'.op = "fetch_state")
        => /\ state' = state
           /\ current_state' = current_state
           /\ current_block_id' = current_block_id
           /\ last'.reqs = <<ListRequest>>]_vars

C1_Witness ==
    /\ last.op = "fetch_state" /\ last.outcome = "ok" /\ last.after_fetch
    /\ last.reqs = <<ListRequest>>
    /\ height > 1 /\ current_block_id = Some(height)

\* C2: when the recorded head is in the fetched list at index k > 0, a
\* refresh asks for the deltas of the k <= 9 newer blocks and of no other
\* block, one request per block, oldest first, and lays them over the
\* synchronized store in that order; a failing request ends it early.
C2_IncrementalOrder ==
    [][(last'.op = "fetch_state" /\ current_block_id # None
        /\ Index(BlockList(LookBack), current_block_id[1]) > 1)
        => LET head == current_block_id[1]
               k == Index(BlockList(LookBack), head) - 1
               want == <<ListRequest>> \o DeltaRequests(head, height)
           IN  /\ k = height - head /\ k <= LookBack - 1
               /\ IsPrefix(last'.reqs, want)
               /\ last'.outcome = "ok"
                    => /\ last'.reqs = want
                       /\ state' = Some(CaughtUp(state[1], head, height))]_vars

C2_Witness ==
    /\ last.op = "fetch_state" /\ last.outcome = "ok"
    /\ last.reqs = <<ListRequest>> \o DeltaRequests(height - 3, height)

\* C3: when the recorded head is not among the ids the validator lists (or
\* no head is recorded yet), a refresh sends one request for the objects of
\* the store as of the newest id and no delta request, and builds the
\* synchronized store from the answer alone.
C3_FullRefetch ==
    [][(IsRefresh(last'.op)
        /\ ~(current_block_id # None
              /\ current_block_id[1] \in Range(BlockList(LookBack))))
        => \/ /\ last'.outcome = "MessageException"
              /\ last'.reqs = <<ListRequest>>
              /\ state' = state
           \/ /\ last'.reqs = <<ListRequest,
                                 get_store_objects_through_block_request(height)>>
              /\ last'.outcome = "ok" => state' = Some(StoreAt(height))
              /\ last'.outcome # "ok" => state' = state]_vars

C3_Witness ==
    /\ last.op = "fetch_state" /\ last.outcome = "ok"
    /\ height > LookBack
    /\ last.reqs = <<ListRequest, get_store_objects_through_block_request(height)>>

\* C4: after every refresh that returns, the recorded head is the newest id
\* of the chain and the synchronized store holds the content of the
\* validator's store as of that block.
C4_Convergence ==
    (IsRefresh(last.op) /\ last.outcome = "ok")
        => /\ current_block_id = Some(height)
           /\ state = Some(StoreAt(height))

C4_Witness ==
    /\ last.op = "fetch_state" /\ last.outcome = "ok"
    /\ Len(last.reqs) > 3
    /\ state = Some(StoreAt(height))
    /\ StoreAt(height) # StoreAt(height - 1)

\* C5, as claimed: after every refresh that returns, the speculative store
\* holds what the synchronized store holds.
C5_RederivedAfterEveryRefresh ==
    (last.op = "fetch_state" /\ last.outcome = "ok") => current_state = state

\* C5, amended: a refresh that returns and found a newest block other than
\* the recorded head leaves the speculative store equal to the synchronized
\* store; one that found the recorded head current leaves both stores as
\* they were, the effects of submitted transactions included.
C5_RederivedOnNewHead ==
    [][(last'.op = "fetch_state" /\ last'.outcome = "ok")
        => IF current_block_id = Some(height)
           THEN current_state' = current_state /\ state' = state
           ELSE current_state' = state']_vars

C5_Witness ==
    /\ last.op = "fetch_state" /\ last.outcome = "ok" /\ Len(last.reqs) > 1
    /\ last_transaction # None /\ ~disable_client_validation
    /\ current_state = state

\* The POST requests among the requests of the last operation.
Posts == SelectSeq(last.reqs, LAMBDA r : r.method = "POST")

\* C6: a send_batch() on an open batch calls sendtxn once, with the updates
\* added since start_batch() in the order added and with the dependencies
\* given to those calls, and at most one POST carries them.
C6_BatchAtomicity ==
    (last.op = "send_batch" /\ last.outcome # "TypeError")
        => /\ Len(last.calls) = 1
           /\ last.calls[1].Updates = added.Updates
           /\ last.calls[1].Dependencies = added.Dependencies
           /\ Len(Posts) <= 1
           /\ \A i \in 1..Len(Posts) :
                 Posts[i].body[1].minfo = [Updates |-> added.Updates,
                                           Dependencies |-> added.Dependencies]

C6_Witness ==
    /\ last.op = "send_batch" /\ last.outcome = "ok" /\ last.ret # None
    /\ Len(Posts) = 1
    /\ Len(added.Updates) >= 2
    /\ Cardinality(Range(added.Dependencies)) >= 2

\* C7: reset_batch() sends nothing, calls sendtxn not at all, leaves the
\* speculative store and the last-submitted id as they were, and leaves no
\* batch open.
C7_ResetBatchFrame ==
    [][last'.op = "reset_batch"
        => /\ last'.reqs = <<>> /\ last'.calls = <<>>
           /\ last'.outcome = "ok"
           /\ current_state' = current_state
           /\ last_transaction' = last_transaction
           /\ update_batch' = None]_vars

C7_Witness ==
    /\ last.op = "reset_batch" /\ update_batch = None
    /\ added.Updates # <<>>
    /\ last_transaction # None

\* C8: start_batch() while a batch is open raises ClientException and leaves
\* the open batch as it was.
C8_SingleOpenBatch ==
    [][(last'.op = "start_batch" /\ update_batch # None)
        => /\ last'.outcome = "ClientException"
           /\ update_batch' = update_batch]_vars

C8_Witness ==
    /\ last.op = "start_batch" /\ last.outcome = "ClientException"
    /\ update_batch # None
    /\ update_batch[1].Updates # <<>>
    /\ update_batch[1].Dependencies # <<>>

\* C9: send_update() while a batch is open sends no request and does not
\* call sendtxn; it returns None, only extends the updates and dependencies
\* of the batch, and leaves the speculative store and the last-submitted id
\* as they were, also on a client without a signing identity.
C9_AddIsLocal ==
    [][(last'.op = "send_update" /\ update_batch # None)
        => /\ last'.reqs = <<>> /\ last'.calls = <<>>
           /\ last'.ret = None
           /\ last'.outcome \in {"ok", "ClientException"}
           /\ current_state' = current_state
           /\ last_transaction' = last_transaction
           /\ cookie' = cookie
           /\ update_batch' # None
           /\ IsPrefix(update_batch[1].Updates, update_batch'[1].Updates)
           /\ IsPrefix(update_batch[1].Dependencies,
                       update_batch'[1].Dependencies)
           /\ last'.outcome # "ok" => update_batch' = update_batch]_vars

C9_Witness ==
    /\ last.op = "send_update" /\ last.outcome = "ok" /\ ~local_node
    /\ update_batch # None
    /\ Len(update_batch[1].Updates) >= 2
    /\ update_batch[1].Dependencies # <<>>

\* C10: however send_batch() ends, no batch is open afterwards, and a
\* start_batch() that follows it opens an empty batch.
C10_SendBatchCloses ==
    [][/\ last'.op = "send_batch" => update_batch' = None
       /\ (last.op = "send_batch" /\ last'.op = "start_batch")
            => /\ last'.outcome = "ok"
               /\ update_batch' = Some(EmptyBatch)]_vars

C10_Witness ==
    /\ last.op = "send_batch"
    /\ last.outcome = "InvalidTransactionError"
    /\ Len(last.calls) = 1 /\ last.calls[1].Updates # <<>>
    /\ update_batch = None

\* C11: send_batch() on an open batch to which no update was added fails with
\* ClientException, makes no call to sendtxn and sends nothing. (The batch was
\* open when send_batch did not end in the TypeError of a missing batch, and
\* added.Updates holds the updates added since the batch was opened.)
C11_EmptyBatchRejected ==
    (/\ last.op = "send_batch"
     /\ last.outcome # "TypeError"
     /\ added.Updates = <<>>)
        => /\ last.outcome = "ClientException"
           /\ last.calls = <<>>
           /\ last.reqs = <<>>

\* What the code does instead: the empty batch goes through sendtxn and, on a
\* client with a signing identity, is posted.
C11_EmptyBatchPosted ==
    /\ last.op = "send_batch"
    /\ added.Updates = <<>>
    /\ Len(last.calls) = 1
    /\ last.calls[1].Updates = <<>>
    /\ Len(Posts) = 1
    /\ last.ret # None

\* How many times a client method was called.
Count(methods, m) == Len(SelectSeq(methods, LAMBDA x : x = m))

\* C12: a "with UpdateBatch(client)" block calls start_batch() on entering.
\* Once entered, a block whose body ended normally calls send_batch() exactly
\* once and never reset_batch(); a block whose body raised calls reset_batch()
\* and never send_batch(), so nothing is handed to sendtxn or sent, and the
\* exception leaves the block. On both paths, and however send_batch() ended,
\* no batch is open afterwards.
C12_ScopedBatch ==
    last.op = "UpdateBatch"
        => LET sc == last.scope[1] IN
           /\ Head(sc.methods) = "start_batch"
           /\ Count(sc.methods, "start_batch") = 1
           /\ sc.entered
                => /\ IF sc.exception = None
                      THEN /\ Count(sc.methods, "send_batch") = 1
                           /\ Count(sc.methods, "reset_batch") = 0
                           /\ sc.methods[Len(sc.methods)] = "send_batch"
                      ELSE /\ Count(sc.methods, "reset_batch") = 1
                           /\ Count(sc.methods, "send_batch") = 0
                           /\ sc.methods[Len(sc.methods)] = "reset_batch"
                           /\ last.calls = <<>>
                           /\ last.reqs = <<>>
                           /\ last.outcome = sc.exception[1]
                   /\ update_batch = None

\* A block whose body added an update and then raised.
C12_Witness ==
    /\ last.op = "UpdateBatch"
    /\ last.scope[1].entered
    /\ last.scope[1].exception = Some("BodyError")
    /\ added.Updates # <<>>
    /\ update_batch = None

\* C13: with client-side validation enabled, a direct submission whose
\* transaction the local validity check rejects against the speculative
\* snapshot ends with the check's InvalidTransactionError; nothing is sent, and
\* the speculative snapshot and the last-submitted identifier are unchanged.
C13_LocalRejection ==
    [][(/\ last'.op = "send_update"
        /\ update_batch = None
        /\ local_node
        /\ ~disable_client_validation
        /\ ~txn_check_valid(current_state[1], last'.calls[1].Updates))
          => /\ last'.outcome = "InvalidTransactionError"
             /\ last'.reqs = <<>>
             /\ last'.posted = None
             /\ current_state' = current_state
             /\ last_transaction' = last_transaction]_vars

\* A rejected submission after one that went through: the speculative
\* snapshot that rejects it differs from the synchronized one.
C13_Witness ==
    /\ last.op = "send_update"
    /\ last.outcome = "InvalidTransactionError"
    /\ last.reqs = <<>>
    /\ ~disable_client_validation
    /\ last_transaction # None
    /\ ~txn_check_valid(current_state[1], last.calls[1].Updates)
    /\ txn_check_valid(state[1], last.calls[1].Updates)

\* C14: when the POST of a submission fails with a MessageException, the
\* submission returns None without raising, and the speculative snapshot and
\* the last-submitted identifier are unchanged.
C14_TransportFailureAbsorbed ==
    [][(/\ last'.op = "send_update"
        /\ last'.posted = Some("MessageException"))
          => /\ last'.outcome = "ok"
             /\ last'.ret = None
             /\ Len(last'.reqs) = 1
             /\ current_state' = current_state
             /\ last_transaction' = last_transaction]_vars

\* A failed POST after a submission that went through.
C14_Witness ==
    /\ last.op = "send_update"
    /\ last.posted = Some("MessageException")
    /\ last.ret = None
    /\ last_transaction # None
    /\ current_state # state

\* C15: when the POST of a submission succeeds and client-side validation is
\* enabled, the submission returns the identifier of the transaction it
\* posted, that identifier is the last-submitted one afterwards, and the
\* speculative snapshot afterwards is the one before with exactly the updates
\* of that transaction applied, which is what the local check of the next
\* submission runs against.
C15_SuccessfulSubmission ==
    [][(/\ last'.op = "send_update"
        /\ last'.posted = Some("value")
        /\ ~disable_client_validation)
          => /\ last'.outcome = "ok"
             /\ Len(last'.reqs) = 1
             /\ last'.ret = Some(last'.reqs[1].body[1].Identifier)
             /\ last_transaction' = last'.ret
             /\ last'.reqs[1].body[1].minfo = last'.calls[1]
             /\ current_state' =
                    Some(txn_apply(current_state[1], last'.calls[1].Updates))
             /\ state' = state]_vars

\* A submission that went through and whose update the synchronized
\* snapshot does not show.
C15_Witness ==
    /\ last.op = "send_update"
    /\ last.posted = Some("value")
    /\ ~disable_client_validation
    /\ last.ret # None
    /\ last_transaction = last.ret
    /\ current_state # state
    /\ current_state = Some(txn_apply(current_state[1], last.calls[1].Updates))

\* C16: on a client built without a signing identity a submission fails with
\* ClientException, whatever the transaction and whatever the validation
\* setting: nothing is signed, checked locally or sent, and the speculative
\* snapshot and the last-submitted identifier are unchanged.
C16_ReadOnlyClient ==
    [][(/\ last'.op = "send_update"
        /\ update_batch = None
        /\ ~local_node)
          => /\ last'.outcome = "ClientException"
             /\ last'.ret = None
             /\ last'.reqs = <<>>
             /\ last'.posted = None
             /\ current_state' = current_state
             /\ last_transaction' = last_transaction]_vars

\* A read-only client, validation enabled, submitting a transaction the
\* local check would reject: it fails as a read-only client, not as an
\* invalid transaction.
C16_Witness ==
    /\ last.op = "send_update"
    /\ ~local_node
    /\ ~disable_client_validation
    /\ last.outcome = "ClientException"
    /\ ~txn_check_valid(current_state[1], last.calls[1].Updates)

\* A wait_for_commit that had a transaction to poll: one was given, or one
\* had been submitted before.
Polled ==
    /\ last.op = "wait_for_commit"
    /\ (~Falsy(last.wait[1].txnid) \/ last_transaction # None)

\* Every status check was answered, and none with committed.
NoneCommitted ==
    /\ last.outcome = "ok"
    /\ \A i \in 1..Len(last.wait[1].statuses) :
            last.wait[1].statuses[i] # committed

\* C17 as stated: wait_for_commit with iterations = N issues at most N status
\* checks, and returns False if none of them reports committed.
C17_AtMostNChecks ==
    Polled => /\ Len(last.reqs) <= last.wait[1].iterations
              /\ NoneCommitted => last.ret = Some(FALSE)

\* C17, amended: wait_for_commit with iterations = N >= 0 issues at most N + 1
\* status checks, the first and N more after a sleep each; if every check it
\* issued was answered and none reported committed, it issued exactly N + 1
\* and returns False.
C17_AtMostNPlusOneChecks ==
    Polled => /\ Len(last.reqs) <= last.wait[1].iterations + 1
              /\ NoneCommitted
                    => /\ last.ret = Some(FALSE)
                       /\ Len(last.reqs) = last.wait[1].iterations + 1
                       /\ Len(last.wait[1].statuses) = Len(last.reqs)

\* Two iterations against a validator that does not know the transaction:
\* three checks, then False.
C17_Witness ==
    /\ Polled
    /\ last.wait[1].iterations = 2
    /\ last.wait[1].statuses = <<not_found, not_found, not_found>>
    /\ Len(last.reqs) = 3
    /\ last.ret = Some(FALSE)

\* The request of every status check of the last operation is the HEAD request
\* for the transaction txnid.
ChecksAreFor(txnid) ==
    \A i \in 1..Len(last.reqs) :
        last.reqs[i] = get_transaction_status_request(txnid)

\* C18: against a validator that answers pending to every status check,
\* wait_for_commit with iterations = N makes exactly N + 1 checks (4 for
\* N = 3) and returns False without raising.
C18_AlwaysPending ==
    (/\ Polled
     /\ Len(last.wait[1].statuses) = Len(last.reqs)
     /\ \A i \in 1..Len(last.reqs) : last.wait[1].statuses[i] = pending)
        => /\ Len(last.reqs) = last.wait[1].iterations + 1
           /\ last.outcome = "ok"
           /\ last.ret = Some(FALSE)

\* Three iterations, four pending answers.
C18_Witness ==
    /\ Polled
    /\ last.wait[1].iterations = 3
    /\ last.wait[1].statuses = <<pending, pending, pending, pending>>
    /\ Len(last.reqs) = 4
    /\ last.outcome = "ok"
    /\ last.ret = Some(FALSE)

\* C19: a wait_for_commit that has a transaction to poll returns True on the
\* first status check answered with committed and makes no check after it,
\* also when that check is the last one its iterations allow; and it returns
\* True only if its last check, a check for that transaction, was answered
\* with committed.
C19_FirstCommitted ==
    Polled
        => LET st == last.wait[1].statuses
               n == Len(last.reqs)
           IN  /\ (\E i \in 1..Len(st) : st[i] = committed)
                    => /\ last.outcome = "ok"
                       /\ last.ret = Some(TRUE)
                       /\ Len(st) = n
                       /\ st[n] = committed
                       /\ \A i \in 1..(n - 1) : st[i] # committed
               /\ last.ret = Some(TRUE)
                    => /\ n >= 1
                       /\ Len(st) = n
                       /\ st[n] = committed
                       /\ ChecksAreFor(IF Falsy(last.wait[1].txnid)
                                       THEN last_transaction[1]
                                       ELSE last.wait[1].txnid[1])

\* The commit shows on the last check the iterations allow.
C19_Witness ==
    /\ Polled
    /\ last.wait[1].iterations = 2
    /\ last.wait[1].statuses = <<pending, pending, committed>>
    /\ Len(last.reqs) = 3
    /\ last.ret = Some(TRUE)

\* C20: wait_for_commit called with no transaction id on a client that has
\* submitted nothing returns True without a status check; called with no id
\* after a submission went through, every check it makes is for the
\* identifier that the most recent such submission returned. (A submission
\* that returns an identifier makes it the last-submitted one, and one that
\* returns none leaves the last-submitted one as it was.)
C20_DefaultTarget ==
    [][/\ last'.op = "send_update"
            => last_transaction' = IF last'.ret # None THEN last'.ret
                                   ELSE last_transaction
       /\ (last'.op = "wait_for_commit" /\ Falsy(last'.wait[1].txnid))
            => /\ last_transaction' = last_transaction
               /\ IF last_transaction = None
                  THEN /\ last'.outcome = "ok"
                       /\ last'.ret = Some(TRUE)
                       /\ last'.reqs = <<>>
                  ELSE /\ Len(last'.reqs) >= 1
                       /\ \A i \in 1..Len(last'.reqs) :
                              last'.reqs[i] = get_transaction_status_request(
                                                  last_transaction[1])]_vars

\* No id given after the submission of "t2": the checks are for "t2".
C20_Witness ==
    /\ last.op = "wait_for_commit"
    /\ last.wait[1].txnid = None
    /\ last_transaction = Some("t2")
    /\ Len(last.reqs) = 2
    /\ ChecksAreFor("t2")

\* C21: the session token is set at most once: once the client holds a token
\* that a response supplied (a Set-Cookie header that is not empty), no
\* operation changes it, whatever token later responses carry.
C21_TokenSetOnce ==
    [][(cookie # None /\ cookie[1] # "") => cookie' = cookie]_vars

\* A submission sent with the token "c1" and answered with the token "c2":
\* the client still holds "c1".
C21_Witness ==
    /\ last.op = "send_update"
    /\ last.answer # None
    /\ last.reqs[1].cookie = Some("c1")
    /\ last.answer[1].set_cookie = Some("c2")
    /\ cookie = Some("c1")

\* C22: once the client holds a session token, every request of every later
\* operation, HEAD, GET or POST, carries that token as its cookie header.
C22_TokenOnEveryRequest ==
    [][(cookie # None /\ cookie[1] # "")
          => \A i \in 1..Len(last'.reqs) : last'.reqs[i].cookie = cookie]_vars

\* What the code does instead: a status check sent without the token the
\* client holds.
C22_HeadWithoutToken ==
    /\ cookie = Some("c1")
    /\ last.op = "wait_for_commit"
    /\ Len(last.reqs) >= 1
    /\ last.reqs[1].method = "HEAD"
    /\ last.reqs[1].cookie = None

\* The names of the parameters in the query of the request of a store request.
QueryNames == {p[1] : p \in last.reqs[1].path.query}

\* C23: for every combination of store name, key, block id and delta flag, the
\* constructed store path has the parameter delta=1 only when a key is given
\* (a delta flag without a key is ignored), and has blockid=<id> exactly when
\* a block id is given.
C23_StorePath ==
    last.op = "get_store_by_name"
        => LET a == last.args[1]
               query == last.reqs[1].path.query
           IN  /\ "delta" \in QueryNames => a.key # None
               /\ "blockid" \in QueryNames <=> a.block_id # None
               /\ a.block_id # None => <<"blockid", a.block_id[1]>> \in query

\* What the code does instead: delta=1 in the path of a request with the delta
\* flag and no key.
C23_DeltaWithoutKey ==
    /\ last.op = "get_store_by_name"
    /\ last.args[1].key = None
    /\ last.args[1].delta
    /\ last.reqs[1].path.segs = <<(<<"A">>)>>
    /\ last.reqs[1].path.query = {<<"delta", 1>>}

\* C24: in every state between operations the synchronized store holds the
\* content of the validator's store as of the recorded head; and a refresh
\* that ends with a transport failure, also part-way through the incremental
\* catch-up, leaves the synchronized store and the recorded head as they were
\* before the call.
C24_RefreshAllOrNothing ==
    [][/\ current_block_id' # None
            => state' = Some(StoreAt(current_block_id'[1]))
       /\ (IsRefresh(last'.op) /\ last'.outcome # "ok")
            => /\ state' = state
               /\ current_block_id' = current_block_id]_vars

\* What the code does instead: the delta request for the second new block
\* failed, and the synchronized store holds the content as of the first new
\* block while the recorded head is the one before it.
C24_AheadOfRecordedHead ==
    /\ last.op = "fetch_state"
    /\ last.outcome = "MessageException"
    /\ Len(last.reqs) = 3
    /\ height >= current_block_id[1] + 3
    /\ state = Some(StoreAt(current_block_id[1] + 1))
    /\ state # Some(StoreAt(current_block_id[1]))

\* An operation that handed a transaction to sendtxn.
Submits(op) == op \in {"send_update", "send_batch", "UpdateBatch"}

\* C25 as stated: a submission, however it ends, leaves the synchronized
\* store and the recorded head unchanged, and of the client's state it changes
\* at most the speculative store and the last-submitted identifier.
C25_SubmissionFrame ==
    [][(Submits(last'.op) /\ Len(last'.calls) = 1)
          => /\ state' = state
             /\ current_block_id' = current_block_id
             /\ cookie' = cookie
             /\ UNCHANGED <<client, local_node, disable_client_validation,
                            update_batch>>]_vars

\* C25, amended: a submission, however it ends, leaves the synchronized store
\* and the recorded head unchanged; of the client's state it changes at most
\* the speculative store, the last-submitted identifier and the session
\* token, and the token only by taking it from the answer to its POST while
\* none is held. (A submission made by send_batch also clears the batch.)
C25_SubmissionFrameWithToken ==
    [][(Submits(last'.op) /\ Len(last'.calls) = 1)
          => /\ state' = state
             /\ current_block_id' = current_block_id
             /\ cookie' # cookie
                  => /\ cookie = None \/ cookie[1] = ""
                     /\ last'.answer # None
                     /\ cookie' = last'.answer[1].set_cookie
             /\ update_batch' = IF last'.op = "send_update" THEN update_batch
                                ELSE None
             /\ UNCHANGED <<client, local_node, disable_client_validation>>]_vars

\* A submission that went through and took the token of its answer: the
\* speculative store has moved away from the synchronized one.
C25_Witness ==
    /\ last.op = "send_update"
    /\ last.ret # None
    /\ last.reqs[1].cookie = None
    /\ cookie = Some("c1")
    /\ current_state # state
    /\ state = Some(StoreAt(current_block_id[1]))

\* C26: a submission whose POST is answered with an HTTP error status ends in
\* one of two ways and no other: it returns None, or it raises
\* InvalidTransactionError, the latter exactly when the error body decodes to
\* a structured error tagged InvalidTransactionError; either way the
\* speculative store and the last-submitted identifier are unchanged.
C26_PostFailureClassification ==
    [][(/\ Submits(last'.op)
        /\ last'.answer # None
        /\ last'.answer[1].kind = "HTTPError")
          => /\ \/ last'.outcome = "ok" /\ last'.ret = None
                \/ last'.outcome = "InvalidTransactionError"
             /\ last'.outcome = "InvalidTransactionError"
                  <=> /\ Structured(last'.answer[1].encoding)
                      /\ last'.answer[1].body = "InvalidTransactionError"
             /\ current_state' = current_state
             /\ last_transaction' = last_transaction]_vars

\* What the code does instead: an HTTP error whose structured body decodes
\* and has no errorType leaves the submission with an UnboundLocalError.
C26_NoErrorTypeEscapes ==
    /\ last.op = "send_update"
    /\ last.answer # None
    /\ last.answer[1].kind = "HTTPError"
    /\ last.answer[1].body = "NoErrorType"
    /\ last.outcome = "UnboundLocalError"

\* C27: with client-side validation disabled, a direct submission on a client
\* with a signing identity runs no local check, so its transaction is always
\* posted, also where the check would reject it; it never changes the
\* speculative store, however it ends; and when postmsg returns a value it
\* returns the identifier of the transaction it posted and makes it the
\* last-submitted one.
C27_ValidationDisabled ==
    [][(/\ last'.op = "send_update"
        /\ update_batch = None
        /\ local_node
        /\ disable_client_validation)
          => /\ Len(last'.reqs) = 1
             /\ last'.posted # None
             /\ current_state' = current_state
             /\ last'.posted = Some("value")
                  => /\ last'.outcome = "ok"
                     /\ last'.ret = Some(last'.reqs[1].body[1].Identifier)
                     /\ last_transaction' = last'.ret
             /\ last'.posted # Some("value")
                  => last_transaction' = last_transaction]_vars

\* Validation disabled: a deletion the local check would reject went through,
\* its identifier is recorded, and the speculative store still shows what the
\* synchronized one shows.
C27_Witness ==
    /\ last.op = "send_update"
    /\ disable_client_validation
    /\ last.posted = Some("value")
    /\ last.ret # None
    /\ last_transaction = last.ret
    /\ ~txn_check_valid(current_state[1], last.calls[1].Updates)
    /\ current_state = state
====
